---- MODULE Spec2Model ----
(***************************************************************************)
(* PointCloudEditor: the ingestion and colourisation pipeline              *)
(* (src/src/lib/utils/point-cloud-utils.ts) and the session state of       *)
(* PointCloudApp (src/src/components/pointcloud/PointCloudApp.tsx).        *)
(*                                                                         *)
(* Two specifications:                                                     *)
(*   SpecCall   one call of loadCSV, loadPCD, createColorMapForCSV or      *)
(*              updateHeightBounds on an input drawn from a bounded set;   *)
(*   Spec       a session of the application: file drops, selection,       *)
(*              deletion, palette changes and height-filter edits.         *)
(***************************************************************************)
EXTENDS Integers, Sequences, FiniteSets, TLC

VARIABLES
    task,            \* SpecCall: the call under examination (its arguments)
    result,          \* SpecCall: what the call has produced so far
    pointClouds,     \* useState: the list of loaded clouds
    selectedPoints,  \* useState: the ids of the selected clouds
    colorMapType,    \* useState: the palette chosen in the UI
    heightFilterEnabled, \* useState
    heightBounds,    \* useState: global [min, max] of elevation
    heightRange,     \* useState: the range chosen in the filter
    drops,           \* the handleFileDrop calls in flight
    now,             \* Date.now(), in ticks
    lastMerge,       \* history: arguments and prior bounds of the last updateHeightBounds
    steps,           \* the number of handler runs so far
    dropped          \* the number of files dropped so far

vars == <<task, result, pointClouds, selectedPoints, colorMapType,
          heightFilterEnabled, heightBounds, heightRange, drops, now, lastMerge,
          steps, dropped>>

(***************************************************************************)
(* JavaScript values.  A value is a record [k, n, d]:                      *)
(*   k = "fin"   the finite number n/d (d > 0, lowest terms)               *)
(*   k = "nan", "pinf", "ninf"   NaN, +Infinity, -Infinity                 *)
(*   k = "null"  null (an empty cell under dynamicTyping)                  *)
(*   k = "text"  a string that Number() turns into NaN                     *)
(* Negative zero is not distinguished from zero.                           *)
(***************************************************************************)
Abs(i) == IF i < 0 THEN -i ELSE i

RECURSIVE Gcd(_, _)
Gcd(a, b) == IF b = 0 THEN a ELSE Gcd(b, a % b)

Rat(n, d) ==
    LET g == Gcd(Abs(n), d)
    IN  [k |-> "fin", n |-> n \div (IF g = 0 THEN 1 ELSE g),
                      d |-> d \div (IF g = 0 THEN 1 ELSE g)]

Num(i) == [k |-> "fin", n |-> i, d |-> 1]
NaN    == [k |-> "nan",  n |-> 0, d |-> 1]
PosInf == [k |-> "pinf", n |-> 0, d |-> 1]
NegInf == [k |-> "ninf", n |-> 0, d |-> 1]
Null   == [k |-> "null", n |-> 0, d |-> 1]
Text   == [k |-> "text", n |-> 0, d |-> 1]

\* ToNumber: null is 0, a non-numeric string is NaN.
ToNumber(v) ==
    CASE v.k = "null" -> Num(0)
      [] v.k = "text" -> NaN
      [] OTHER        -> v

\* The global isNaN and isFinite coerce their argument with ToNumber.
isNaN(v)    == ToNumber(v).k = "nan"
isFinite(v) == ToNumber(v).k = "fin"

IsInf(v) == v.k \in {"pinf", "ninf"}
SignOf(v) ==
    CASE v.k = "pinf" -> 1
      [] v.k = "ninf" -> -1
      [] v.k = "fin"  -> (IF v.n > 0 THEN 1 ELSE IF v.n < 0 THEN -1 ELSE 0)
      [] OTHER        -> 0
InfOf(s) == IF s < 0 THEN NegInf ELSE PosInf

\* a < b on numbers; every comparison with NaN is false.
NumLt(a, b) ==
    CASE a.k = "nan" \/ b.k = "nan"  -> FALSE
      [] a.k = "pinf"                -> FALSE
      [] b.k = "ninf"                -> FALSE
      [] a.k = "ninf"                -> TRUE
      [] b.k = "pinf"                -> TRUE
      [] OTHER                       -> a.n * b.d < b.n * a.d
Lt(a, b)  == NumLt(ToNumber(a), ToNumber(b))
Leq(a, b) == LET x == ToNumber(a)
                 y == ToNumber(b)
             IN  x.k # "nan" /\ y.k # "nan" /\ ~NumLt(y, x)

NumAdd(a, b) ==
    CASE a.k = "nan" \/ b.k = "nan"         -> NaN
      [] IsInf(a) /\ IsInf(b) /\ a.k # b.k  -> NaN
      [] IsInf(a)                           -> a
      [] IsInf(b)                           -> b
      [] OTHER                              -> Rat(a.n * b.d + b.n * a.d, a.d * b.d)
NumNeg(a) ==
    CASE a.k = "pinf" -> NegInf
      [] a.k = "ninf" -> PosInf
      [] a.k = "fin"  -> [a EXCEPT !.n = -a.n]
      [] OTHER        -> a
NumMul(a, b) ==
    CASE a.k = "nan" \/ b.k = "nan"  -> NaN
      [] IsInf(a) \/ IsInf(b)        ->
            IF SignOf(a) * SignOf(b) = 0 THEN NaN ELSE InfOf(SignOf(a) * SignOf(b))
      [] OTHER                       -> Rat(a.n * b.n, a.d * b.d)
NumDiv(a, b) ==
    CASE a.k = "nan" \/ b.k = "nan"  -> NaN
      [] IsInf(a) /\ IsInf(b)        -> NaN
      [] IsInf(a)                    -> InfOf(SignOf(a) * (IF SignOf(b) < 0 THEN -1 ELSE 1))
      [] IsInf(b)                    -> Num(0)
      [] b.n = 0                     -> IF a.n = 0 THEN NaN ELSE InfOf(SignOf(a))
      [] OTHER                       -> Rat(a.n * b.d * SignOf(b), a.d * Abs(b.n))

\* The arithmetic operators coerce their operands.
Add(a, b) == NumAdd(ToNumber(a), ToNumber(b))
Sub(a, b) == NumAdd(ToNumber(a), NumNeg(ToNumber(b)))
Mul(a, b) == NumMul(ToNumber(a), ToNumber(b))
Div(a, b) == NumDiv(ToNumber(a), ToNumber(b))

\* Math.min and Math.max of two arguments: NaN if either is NaN.
MathMin2(a, b) ==
    LET x == ToNumber(a)
        y == ToNumber(b)
    IN  IF x.k = "nan" \/ y.k = "nan" THEN NaN ELSE IF NumLt(y, x) THEN y ELSE x
MathMax2(a, b) ==
    LET x == ToNumber(a)
        y == ToNumber(b)
    IN  IF x.k = "nan" \/ y.k = "nan" THEN NaN ELSE IF NumLt(x, y) THEN y ELSE x

\* Math.min(...values), Math.max(...values): +Infinity, -Infinity on no argument.
RECURSIVE MathMin(_)
MathMin(values) ==
    IF values = <<>> THEN PosInf ELSE MathMin2(Head(values), MathMin(Tail(values)))
RECURSIVE MathMax(_)
MathMax(values) ==
    IF values = <<>> THEN NegInf ELSE MathMax2(Head(values), MathMax(Tail(values)))

\* Math.floor and Math.round (floor(x + 1/2)) of a number.
MathFloor(v) ==
    LET x == ToNumber(v) IN IF x.k = "fin" THEN Num(x.n \div x.d) ELSE x
MathRound(v) == MathFloor(Add(v, Rat(1, 2)))

\* Math.fround on the integers up to 2^25: exact up to 2^24, above it the
\* nearest even integer, ties to the even significand.  The float32 rounding
\* of a fraction is not computed: a fraction is kept as the real it denotes.
Fround(v) ==
    LET x == ToNumber(v)
        m == Abs(x.n)
        r == IF m % 2 = 0 THEN m
             ELSE IF ((m - 1) \div 2) % 2 = 0 THEN m - 1 ELSE m + 1
    IN  IF x.k = "fin" /\ x.d = 1 /\ m > 16777216
        THEN Num(SignOf(x) * r)
        ELSE x

\* new Float32Array(array): every element converted to a 32-bit float.
RECURSIVE Float32Array(_)
Float32Array(a) ==
    IF a = <<>> THEN <<>> ELSE <<Fround(Head(a))>> \o Float32Array(Tail(a))

(***************************************************************************)
(* Colormap engine                                                         *)
(***************************************************************************)
RGB(r, g, b) == <<r, g, b>>

\* HSVtoRGB(h, s, v): the 6-sector conversion.  With h = NaN the sector
\* i % 6 is NaN, no case of the switch matches and r, g, b stay 0.
HSVtoRGB(h, s, v) ==
    LET i  == MathFloor(Mul(h, Num(6)))
        f  == Sub(Mul(h, Num(6)), i)
        p  == Mul(v, Sub(Num(1), s))
        q  == Mul(v, Sub(Num(1), Mul(f, s)))
        t  == Mul(v, Sub(Num(1), Mul(Sub(Num(1), f), s)))
        sector == IF i.k = "fin" THEN i.n % 6 ELSE -1
    IN  CASE sector = 0 -> RGB(v, t, p)
          [] sector = 1 -> RGB(q, v, p)
          [] sector = 2 -> RGB(p, v, t)
          [] sector = 3 -> RGB(p, q, v)
          [] sector = 4 -> RGB(t, p, v)
          [] sector = 5 -> RGB(v, p, q)
          [] OTHER      -> RGB(Num(0), Num(0), Num(0))

\* A plausible slip: the hue grows with the value instead of falling.
rainbowHue_Reversed(normalized) == Mul(normalized, Num(270))

\* const hue = (1 - normalized) * 270
rainbowHue(normalized) == Mul(Sub(Num(1), normalized), Num(270))

\* A plausible slip: the yellow-to-red band of the elevation palette loses its
\* factor 5.
colorOf_FlatBand(normalized, mapType) ==
    CASE mapType = "rainbow" ->
            HSVtoRGB(Div(rainbowHue(normalized), Num(360)), Num(1), Num(1))
      [] mapType = "elevation" ->
            IF Lt(normalized, Rat(1, 5))
            THEN RGB(Num(0), Mul(normalized, Num(5)), Num(1))
            ELSE IF Lt(normalized, Rat(2, 5))
            THEN RGB(Num(0), Num(1), Sub(Num(1), Mul(Sub(normalized, Rat(1, 5)), Num(5))))
            ELSE IF Lt(normalized, Rat(3, 5))
            THEN RGB(Mul(Sub(normalized, Rat(2, 5)), Num(5)), Num(1), Num(0))
            ELSE IF Lt(normalized, Rat(4, 5))
            THEN RGB(Num(1), Sub(Num(1), Sub(normalized, Rat(3, 5))), Num(0))
            ELSE RGB(Num(1), Mul(Sub(normalized, Rat(4, 5)), Num(5)),
                             Mul(Sub(normalized, Rat(4, 5)), Num(5)))
      [] OTHER ->
            IF Lt(normalized, Rat(1, 2))
            THEN RGB(Num(0), Mul(normalized, Num(2)), Sub(Num(1), Mul(normalized, Num(2))))
            ELSE RGB(Mul(Sub(normalized, Rat(1, 2)), Num(2)),
                     Sub(Num(1), Mul(Sub(normalized, Rat(1, 2)), Num(2))),
                     Num(0))

\* One iteration of the forEach of createColorMapForCSV: the colour of a
\* normalized value under a palette.
colorOf(normalized, mapType) ==
    CASE mapType = "rainbow" ->
            HSVtoRGB(Div(rainbowHue(normalized), Num(360)), Num(1), Num(1))
      [] mapType = "elevation" ->
            IF Lt(normalized, Rat(1, 5))
            THEN RGB(Num(0), Mul(normalized, Num(5)), Num(1))
            ELSE IF Lt(normalized, Rat(2, 5))
            THEN RGB(Num(0), Num(1), Sub(Num(1), Mul(Sub(normalized, Rat(1, 5)), Num(5))))
            ELSE IF Lt(normalized, Rat(3, 5))
            THEN RGB(Mul(Sub(normalized, Rat(2, 5)), Num(5)), Num(1), Num(0))
            ELSE IF Lt(normalized, Rat(4, 5))
            THEN RGB(Num(1), Sub(Num(1), Mul(Sub(normalized, Rat(3, 5)), Num(5))), Num(0))
            ELSE RGB(Num(1), Mul(Sub(normalized, Rat(4, 5)), Num(5)),
                             Mul(Sub(normalized, Rat(4, 5)), Num(5)))
      [] OTHER ->
            IF Lt(normalized, Rat(1, 2))
            THEN RGB(Num(0), Mul(normalized, Num(2)), Sub(Num(1), Mul(normalized, Num(2))))
            ELSE RGB(Mul(Sub(normalized, Rat(1, 2)), Num(2)),
                     Sub(Num(1), Mul(Sub(normalized, Rat(1, 2)), Num(2))),
                     Num(0))

\* A plausible slip: the value is normalized over the initial global bounds.
normalize_Global(z, min, range) == Div(Sub(z, Num(-10)), Num(20))

\* normalized = (z - min) / range
normalize(z, min, range) == Div(Sub(z, min), range)

RECURSIVE colorMapFrom(_, _, _, _)
colorMapFrom(zValues, min, range, mapType) ==
    IF zValues = <<>> THEN <<>>
    ELSE colorOf(normalize(Head(zValues), min, range), mapType)
            \o colorMapFrom(Tail(zValues), min, range, mapType)

\* createColorMapForCSV(zValues, mapType): a flat array of 3 x length colours.
createColorMapForCSV(zValues, mapType) ==
    LET min   == MathMin(zValues)
        max   == MathMax(zValues)
        range == Sub(max, min)
    IN  colorMapFrom(zValues, min, range, mapType)

\* createSingleColorForPCD(pointCount): gray (0.7, 0.7, 0.7) for every point.
RECURSIVE createSingleColorForPCD(_)
createSingleColorForPCD(pointCount) ==
    IF pointCount <= 0 THEN <<>>
    ELSE <<Rat(7, 10), Rat(7, 10), Rat(7, 10)>> \o createSingleColorForPCD(pointCount - 1)

(***************************************************************************)
(* Bounds tracker                                                          *)
(***************************************************************************)
\* A plausible slip: the new extrema replace the bounds instead of merging.
updateHeightBounds_Replace(prevBounds, minZ, maxZ) == <<minZ, maxZ>>

\* A plausible slip: Math.min and Math.max exchanged.
updateHeightBounds_Swapped(prevBounds, minZ, maxZ) ==
    <<MathMax2(prevBounds[1], minZ), MathMin2(prevBounds[2], maxZ)>>

\* updateHeightBounds(minZ, maxZ): the updater given to setHeightBounds, applied
\* to the bounds it finds; heightRange is set to the same pair.
updateHeightBounds(prevBounds, minZ, maxZ) ==
    <<MathMin2(prevBounds[1], minZ), MathMax2(prevBounds[2], maxZ)>>

(***************************************************************************)
(* Promise outcomes.  calls: the arguments of every updateHeightBounds     *)
(* call made; log: the order of the callback, the delegate loader and the  *)
(* settling of the promise.                                                *)
(***************************************************************************)
Resolved(value, calls, log) ==
    [status |-> "resolved", value |-> value, error |-> "", calls |-> calls,
     log |-> log \o <<"resolve">>]
Rejected(error, calls, log) ==
    [status |-> "rejected", value |-> <<>>, error |-> error, calls |-> calls,
     log |-> log \o <<"reject">>]

\* A plausible slip: the extrema passed in the wrong order.
boundsCalls_Swapped(zValues, cb) ==
    IF Len(zValues) > 0 /\ cb
    THEN <<<<MathMax(zValues), MathMin(zValues)>>>>
    ELSE <<>>

\* if (zValues.length > 0 && updateHeightBounds) updateHeightBounds(min, max)
boundsCalls(zValues, cb) ==
    IF Len(zValues) > 0 /\ cb
    THEN <<<<MathMin(zValues), MathMax(zValues)>>>>
    ELSE <<>>
boundsLog(zValues, cb) ==
    IF Len(zValues) > 0 /\ cb THEN <<"updateHeightBounds">> ELSE <<>>

(***************************************************************************)
(* loadCSV: the complete callback of Papa.parse over results.data          *)
(***************************************************************************)
\* A plausible slip: the flag is raised by any row of 6 fields.
csvHasRGB_AnyRow(data) == \E i \in 1..Len(data) : Len(data[i]) >= 6

\* const hasRGB = results.data[0] && results.data[0].length >= 6
csvHasRGB(data) == Len(data) > 0 /\ Len(data[1]) >= 6

\* The row passes the length test and the NaN / finite test of x, y, z.
csvRowAccepted(row) ==
    /\ Len(row) >= 3
    /\ ~(isNaN(row[1]) \/ isNaN(row[2]) \/ isNaN(row[3])
         \/ ~isFinite(row[1]) \/ ~isFinite(row[2]) \/ ~isFinite(row[3]))

\* if (hasRGB && dataRow.length >= 6)
csvRowHasColor(row, hasRGB) == hasRGB /\ Len(row) >= 6

\* A plausible slip: the channel is not clamped.
csvValidChannel_NoClamp(c) == IF isNaN(c) THEN Num(128) ELSE ToNumber(c)

\* isNaN(c) ? 128 : Math.max(0, Math.min(255, c))
csvValidChannel(c) ==
    IF isNaN(c) THEN Num(128) ELSE MathMax2(Num(0), MathMin2(Num(255), c))

csvRowColor(row) ==
    <<Div(csvValidChannel(row[4]), Num(255)),
      Div(csvValidChannel(row[5]), Num(255)),
      Div(csvValidChannel(row[6]), Num(255))>>

\* results.data.forEach(...): positions, zValues, colors and validPointCount
\* after the rows from index i on have been visited.
RECURSIVE csvForEach(_, _, _, _)
csvForEach(data, i, hasRGB, acc) ==
    IF i > Len(data) THEN acc
    ELSE LET row == data[i]
         IN  IF csvRowAccepted(row)
             THEN csvForEach(data, i + 1, hasRGB,
                    [positions |-> acc.positions \o <<row[1], row[2], row[3]>>,
                     zValues   |-> Append(acc.zValues, row[3]),
                     colors    |-> IF csvRowHasColor(row, hasRGB)
                                   THEN acc.colors \o csvRowColor(row)
                                   ELSE acc.colors,
                     validPointCount |-> acc.validPointCount + 1])
             ELSE csvForEach(data, i + 1, hasRGB, acc)

\* A plausible slip: the empty result is not detected.
csvNoValidPoints_Missed(validPointCount) == validPointCount < 0

\* if (validPointCount === 0) throw
csvNoValidPoints(validPointCount) == validPointCount = 0

\* A plausible slip: the palette of the caller is ignored.
csvColorArray_Fixed(hasRGB, colors, zValues, mapType) ==
    IF hasRGB THEN Float32Array(colors) ELSE createColorMapForCSV(zValues, "default")

\* hasRGB ? new Float32Array(colors) : createColorMapForCSV(zValues, colorMapType)
csvColorArray(hasRGB, colors, zValues, mapType) ==
    IF hasRGB THEN Float32Array(colors) ELSE createColorMapForCSV(zValues, mapType)

\* loadCSV(file, colorMapType, updateHeightBounds), file decoded into data;
\* cb: whether updateHeightBounds was passed.
loadCSV(data, mapType, cb) ==
    LET hasRGB == csvHasRGB(data)
        acc    == csvForEach(data, 1, hasRGB,
                    [positions |-> <<>>, zValues |-> <<>>, colors |-> <<>>,
                     validPointCount |-> 0])
    IN  IF csvNoValidPoints(acc.validPointCount)
        THEN Rejected("no valid points", <<>>, <<>>)
        ELSE Resolved([positions    |-> Float32Array(acc.positions),
                       colors       |-> csvColorArray(hasRGB, acc.colors, acc.zValues, mapType),
                       originalData |-> data,
                       zValues      |-> acc.zValues,
                       hasRGB       |-> hasRGB],
                      boundsCalls(acc.zValues, cb),
                      boundsLog(acc.zValues, cb))

(***************************************************************************)
(* loadPCD.  The decoded text is a sequence of lines; a line is a record   *)
(*   kw      the leading keyword ("# .PCD", "VERSION", "FIELDS", "POINTS", *)
(*           "DATA"), or "" for a line of the data section                 *)
(*   names   the words after the keyword                                   *)
(*   values  the whitespace-separated tokens of a data line (for POINTS,   *)
(*           the token after the keyword)                                  *)
(***************************************************************************)
\* The words of the vocabulary that contain the letter r, so that
\* line.includes('rgb') || line.includes('r') || line.includes('rgba') holds.
WordsWithR == {"rgb", "rgba", "r", "normal_x", "curvature"}

\* text.startsWith('# .PCD'), text.includes('VERSION')
pcdStartsWithMarker(lines) == Len(lines) > 0 /\ lines[1].kw = "# .PCD"
pcdIncludesVersion(lines)  == \E i \in 1..Len(lines) : lines[i].kw = "VERSION"

\* A plausible slip: the marker and the keyword are both required.
pcdInvalidFormat_Both(lines) == ~pcdStartsWithMarker(lines) \/ ~pcdIncludesVersion(lines)

\* if (!text.startsWith('# .PCD') && !text.includes('VERSION')) throw
pcdInvalidFormat(lines) == ~pcdStartsWithMarker(lines) /\ ~pcdIncludesVersion(lines)

\* parseInt of a token: NaN unless the token is a number.
parseInt(v) ==
    IF v.k = "fin" THEN Num(IF v.n >= 0 THEN v.n \div v.d ELSE -((-v.n) \div v.d)) ELSE NaN

\* The header loop: the lines from index i on, up to and including the DATA line.
RECURSIVE pcdHeader(_, _, _)
pcdHeader(lines, i, h) ==
    IF i > Len(lines) THEN h
    ELSE LET line == lines[i]
         IN  CASE line.kw = "POINTS" ->
                    pcdHeader(lines, i + 1,
                        [h EXCEPT !.pointCount =
                            IF Len(line.values) > 0 THEN parseInt(line.values[1]) ELSE NaN])
               [] line.kw = "FIELDS" ->
                    pcdHeader(lines, i + 1,
                        [h EXCEPT !.hasColor =
                            \E j \in 1..Len(line.names) : line.names[j] \in WordsWithR])
               [] line.kw = "DATA" ->
                    [h EXCEPT !.isASCII = \E j \in 1..Len(line.names) : line.names[j] = "ascii",
                              !.dataStartLine = i + 1]
               [] OTHER -> pcdHeader(lines, i + 1, h)

\* values.map(Number)
RECURSIVE mapNumber(_)
mapNumber(tokens) ==
    IF tokens = <<>> THEN <<>> ELSE <<ToNumber(Head(tokens))>> \o mapNumber(Tail(tokens))

\* if (values.length >= 3): the point of a data line is stored.
pcdLineAccepted(values) == Len(values) >= 3

\* if (hasColor && values.length >= 6)
pcdLineHasColor(values, hasColor) == hasColor /\ Len(values) >= 6

\* The loop over the data section, from line i on.
RECURSIVE pcdDataLines(_, _, _, _)
pcdDataLines(lines, i, hasColor, acc) ==
    IF i > Len(lines) THEN acc
    ELSE LET line   == lines[i]
             values == mapNumber(line.values)
         IN  IF line.kw = "" /\ line.values = <<>>
             THEN pcdDataLines(lines, i + 1, hasColor, acc)
             ELSE IF pcdLineAccepted(values)
             THEN pcdDataLines(lines, i + 1, hasColor,
                    [positions |-> acc.positions \o <<values[1], values[2], values[3]>>,
                     colors    |-> IF pcdLineHasColor(values, hasColor)
                                   THEN acc.colors \o <<Div(values[4], Num(255)),
                                                        Div(values[5], Num(255)),
                                                        Div(values[6], Num(255))>>
                                   ELSE acc.colors])
             ELSE pcdDataLines(lines, i + 1, hasColor, acc)

\* zValues.push(positions[i * 3 + 2]) for every point
RECURSIVE zOf(_)
zOf(positions) ==
    IF Len(positions) < 3 THEN <<>>
    ELSE <<positions[3]>> \o zOf(SubSeq(positions, 4, Len(positions)))

\* colorArray[j], undefined (NaN once multiplied) beyond the end of the array
at(array, j) == IF j <= Len(array) THEN array[j] ELSE NaN

\* originalData: [x, y, z, round(r * 255), round(g * 255), round(b * 255)] per point
RECURSIVE pcdOriginalData(_, _, _)
pcdOriginalData(positions, colorArray, i) ==
    IF i * 3 > Len(positions) THEN <<>>
    ELSE << <<positions[i * 3 - 2], positions[i * 3 - 1], positions[i * 3],
              MathRound(Mul(at(colorArray, i * 3 - 2), Num(255))),
              MathRound(Mul(at(colorArray, i * 3 - 1), Num(255))),
              MathRound(Mul(at(colorArray, i * 3), Num(255)))>> >>
         \o pcdOriginalData(positions, colorArray, i + 1)

\* A plausible slip: the direct parse is tried whatever the DATA line says.
pcdTier1Applies_AnyData(h) == Lt(Num(0), h.pointCount)

\* if (isASCII && pointCount > 0)
pcdTier1Applies(h) == h.isASCII /\ Lt(Num(0), h.pointCount)

\* if (positions.length > 0): Tier 1 produced points and resolves.
pcdTier1HasPoints(positions) == Len(positions) > 0

\* colors.length > 0 ? new Float32Array(colors) : createSingleColorForPCD(n)
pcdTier1Colors(positions, colors) ==
    IF Len(colors) > 0 THEN Float32Array(colors)
    ELSE createSingleColorForPCD(Len(positions) \div 3)

\* Tier 1 of loadPCD on the decoded lines: a settled outcome, or status
\* "loading" when the delegate loader is started.
loadPCDTier1(lines, cb) ==
    IF pcdInvalidFormat(lines)
    THEN Rejected("invalid format", <<>>, <<>>)
    ELSE
    LET h   == pcdHeader(lines, 1,
                 [pointCount |-> Num(0), hasColor |-> FALSE, isASCII |-> FALSE,
                  dataStartLine |-> 1])
        acc == IF pcdTier1Applies(h)
               THEN pcdDataLines(lines, h.dataStartLine, h.hasColor,
                                 [positions |-> <<>>, colors |-> <<>>])
               ELSE [positions |-> <<>>, colors |-> <<>>]
        colorArray == pcdTier1Colors(acc.positions, acc.colors)
        zValues    == zOf(acc.positions)
    IN  IF pcdTier1Applies(h) /\ pcdTier1HasPoints(acc.positions)
        THEN Resolved([positions    |-> Float32Array(acc.positions),
                       colors       |-> colorArray,
                       originalData |-> pcdOriginalData(acc.positions, colorArray, 1),
                       hasColor     |-> Len(acc.colors) > 0,
                       zValues      |-> zValues],
                      boundsCalls(zValues, cb), boundsLog(zValues, cb))
        ELSE [status |-> "loading", value |-> <<>>, error |-> "", calls |-> <<>>,
              log |-> <<"loader.load">>]

(***************************************************************************)
(* Tier 2.  What the delegate loader hands back:                           *)
(*   error     the loader called onError                                   *)
(*   isGroup   the object is a THREE.Group (otherwise it is wrapped in one)*)
(*   children  the children of the group (the object itself when wrapped)  *)
(* a child: kind "Points" or "Object3D", hasGeometry ('geometry' in it),   *)
(* geometry [defined, hasPosition, position, hasColor, color].             *)
(***************************************************************************)
\* if (!pointcloud.children || pointcloud.children.length === 0) throw
pcdEmptyGroup(children) == Len(children) = 0

\* The geometry of the first child, or the error thrown on the way to it.
pcdGeometryError(pointMesh) ==
    IF pointMesh.kind # "Points" /\ ~pointMesh.hasGeometry
    THEN "no point mesh"
    ELSE IF ~pointMesh.geometry.defined \/ ~pointMesh.geometry.hasPosition
    THEN "invalid geometry"
    ELSE ""

\* Tier 2 of loadPCD once the delegate loader has called back with lr.
loadPCDTier2(lr, cb) ==
    IF lr.error THEN Rejected("loader error", <<>>, <<"loader.load">>)
    ELSE IF pcdEmptyGroup(lr.children) THEN Rejected("empty point cloud", <<>>, <<"loader.load">>)
    ELSE IF pcdGeometryError(lr.children[1]) # ""
    THEN Rejected(pcdGeometryError(lr.children[1]), <<>>, <<"loader.load">>)
    ELSE
    LET geometry       == lr.children[1].geometry
        positionsArray == geometry.position
        hasColorAttrib == geometry.hasColor
        colorsArray    == IF hasColorAttrib THEN geometry.color
                          ELSE createSingleColorForPCD(Len(positionsArray) \div 3)
        zValuesArray   == zOf(positionsArray)
    IN  Resolved([positions    |-> positionsArray,
                  colors       |-> colorsArray,
                  originalData |-> pcdOriginalData(positionsArray, colorsArray, 1),
                  hasColor     |-> hasColorAttrib,
                  zValues      |-> zValuesArray],
                 boundsCalls(zValuesArray, cb),
                 <<"loader.load">> \o boundsLog(zValuesArray, cb))

(***************************************************************************)
(* exportToCSV.  The text is a sequence of lines, a line a sequence of      *)
(* cells; a cell is a record [k, n, d, w]:                                  *)
(*   k = "numeral"  the decimal text of the finite number n/d              *)
(*   k = "word"     the word w ("X", "NaN", "Infinity", "undefined", ...)  *)
(***************************************************************************)
Numeral(v) == [k |-> "numeral", n |-> v.n, d |-> v.d, w |-> ""]
Word(w)    == [k |-> "word", n |-> 0, d |-> 1, w |-> w]

\* `${v}`: the text a template literal gives a number (or null).
templateText(v) ==
    CASE v.k = "fin"  -> Numeral(v)
      [] v.k = "nan"  -> Word("NaN")
      [] v.k = "pinf" -> Word("Infinity")
      [] v.k = "ninf" -> Word("-Infinity")
      [] v.k = "null" -> Word("null")
      [] OTHER        -> Word("text")

\* let csvContent = "X,Y,Z,R,G,B\n"
csvHeader == <<Word("X"), Word("Y"), Word("Z"), Word("R"), Word("G"), Word("B")>>

\* `${positions[j]}`: an index past the end reads undefined.
positionText(positions, j) ==
    IF j <= Len(positions) THEN templateText(positions[j]) ELSE Word("undefined")

\* Math.round(colors[j] * 255), written into the line.
channelText(colors, j) == templateText(MathRound(Mul(at(colors, j), Num(255))))

\* for (let i = 0; i < pointCount; i++) csvContent += `${x},${y},${z},${r},${g},${b}\n`
\* with pointCount = positions.length / 3 (i is the 1-based point index).
RECURSIVE exportRows(_, _, _)
exportRows(positions, colors, i) ==
    IF 3 * (i - 1) >= Len(positions) THEN <<>>
    ELSE << <<positionText(positions, 3 * i - 2), positionText(positions, 3 * i - 1),
              positionText(positions, 3 * i),
              channelText(colors, 3 * i - 2), channelText(colors, 3 * i - 1),
              channelText(colors, 3 * i)>> >>
         \o exportRows(positions, colors, i + 1)

\* selectedPoints.length > 0 ? pointClouds.filter(pc => selectedPoints.includes(pc.id))
\*                           : pointClouds
cloudsToExport(clouds, selected) ==
    IF Len(selected) > 0
    THEN SelectSeq(clouds, LAMBDA pc : \E k \in 1..Len(selected) : selected[k] = pc.id)
    ELSE clouds

RECURSIVE exportClouds(_)
exportClouds(clouds) ==
    IF clouds = <<>> THEN <<>>
    ELSE exportRows(Head(clouds).data.positions, Head(clouds).data.colors, 1)
            \o exportClouds(Tail(clouds))

\* The csvContent exportToCSV hands to the download link.
csvContent(clouds, selected) ==
    <<csvHeader>> \o exportClouds(cloudsToExport(clouds, selected))

\* Papa.parse with dynamicTyping on a cell: a numeral becomes its number,
\* any other non-empty text stays a string.
dynamicTyping(cell) == IF cell.k = "numeral" THEN Rat(cell.n, cell.d) ELSE Text

\* Papa.parse(text, {header: false, dynamicTyping: true, skipEmptyLines: true}):
\* results.data, one row per line.
papaParse(text) ==
    [r \in 1..Len(text) |-> [c \in 1..Len(text[r]) |-> dynamicTyping(text[r][c])]]

(***************************************************************************)
(* PointCloudScene: the height filter and the index attribute              *)
(***************************************************************************)
\* z >= heightRange[0] && z <= heightRange[1]
heightVisible(z, range) == Leq(range[1], z) /\ Leq(z, range[2])

\* applyHeightFilter(positions): null with the filter disabled, else the
\* indices i (from 0) of the points whose z is within heightRange.
applyHeightFilter(positions, enabled, range) ==
    IF ~enabled THEN [isNull |-> TRUE, indices |-> <<>>]
    ELSE [isNull  |-> FALSE,
          indices |-> SelectSeq([i \in 1..(Len(positions) \div 3) |-> i - 1],
                                LAMBDA i : heightVisible(positions[i * 3 + 3], range))]

\* The element width of a Uint16Array.
Uint16Modulus == 65536
\* new Uint16Array(array): every element is stored modulo 2^16.
Uint16Array(array) == [j \in 1..Len(array) |-> array[j] % Uint16Modulus]

\* The index attribute of the geometry of a cloud:
\* heightFilterEnabled && visibleIndices && <bufferAttribute attach="index" .../>
indexAttribute(positions, enabled, range) ==
    LET visibleIndices == applyHeightFilter(positions, enabled, range)
    IN  IF enabled /\ ~visibleIndices.isNull
        THEN [present |-> TRUE, array |-> Uint16Array(visibleIndices.indices)]
        ELSE [present |-> FALSE, array |-> <<>>]

(***************************************************************************)
(* Bounds of the model                                                     *)
(***************************************************************************)
MaxRows   == 3   \* rows of a delimited file
MaxLines  == 2   \* lines of the data section of a PCD file
MaxValues == 3   \* length of the array given to createColorMapForCSV
MaxZ      == 5   \* the values given to createColorMapForCSV are 0..MaxZ

\* The sequences over S of length lo..hi.
MaxPoints == 65537   \* points of the largest cloud rendered
SeqsOf(S, lo, hi) == UNION {[1..n -> S] : n \in lo..hi}

Palettes == {"default", "rainbow", "elevation"}

(***************************************************************************)
(* Inputs of SpecCall                                                      *)
(***************************************************************************)
\* Decoded rows of a delimited file: plain points, non-finite, text and empty
\* coordinates, a short row, rows with R,G,B (in range, out of range, NaN,
\* empty), a 5-field row, a header row and a 7-field row.
CsvRowSet ==
    { <<Num(1), Num(2), Num(0)>>,
      <<Num(3), Num(4), Num(5)>>,
      <<Num(1), Num(2), NaN>>,
      <<PosInf, Num(2), Num(3)>>,
      <<Num(1), Text, Num(3)>>,
      <<Num(1), Num(2), Null>>,
      <<Num(1), Num(2)>>,
      <<Num(0), Num(0), Num(0), Num(255), Num(0), Num(0)>>,
      <<Num(1), Num(1), Num(1), Num(0), Num(255), Num(0)>>,
      <<Num(2), Num(2), Num(-3), Num(300), Num(-5), Text>>,
      <<Num(6), Num(6), Num(7), Num(10), Num(20)>>,
      <<Text, Text, Text, Text, Text, Text>>,
      <<Num(16777217), Num(0), Num(9), Null, Num(128), NaN, Num(4)>> }

HeaderLine(kw, names, values) == [kw |-> kw, names |-> names, values |-> values]
DataLine(values) == [kw |-> "", names |-> <<>>, values |-> values]

\* Data lines: "0 0 0", "1 1 2", "1 2 nan", "3 3 Infinity", a blank line,
\* "1 2", "0 0 0 255 0 0", "1 1 1 300 -5 abc".
PcdLineSet ==
    { DataLine(<<Num(0), Num(0), Num(0)>>),
      DataLine(<<Num(1), Num(1), Num(2)>>),
      DataLine(<<Num(1), Num(2), Text>>),
      DataLine(<<Num(3), Num(3), PosInf>>),
      DataLine(<<>>),
      DataLine(<<Num(1), Num(2)>>),
      DataLine(<<Num(0), Num(0), Num(0), Num(255), Num(0), Num(0)>>),
      DataLine(<<Num(1), Num(1), Num(1), Num(300), Num(-5), Text>>) }

\* Headers: with or without the "# .PCD" first line and the VERSION line, a
\* FIELDS line, a POINTS line (2, 0, or no count) and a DATA line.
PcdHeaderSet ==
    { (IF marker THEN <<HeaderLine("# .PCD", <<>>, <<>>)>> ELSE <<>>)
        \o (IF version THEN <<HeaderLine("VERSION", <<".7">>, <<>>)>> ELSE <<>>)
        \o <<HeaderLine("FIELDS", fields, <<>>),
             HeaderLine("POINTS", <<>>, points),
             HeaderLine("DATA", <<data>>, <<>>)>> :
        marker \in BOOLEAN, version \in BOOLEAN,
        fields \in { <<"x", "y", "z">>, <<"x", "y", "z", "r", "g", "b">>,
                     <<"x", "y", "z", "intensity">> },
        points \in { <<Num(2)>>, <<Num(0)>>, <<>> },
        data \in {"ascii", "binary"} }

Geometry(hasPosition, position, hasColor, color) ==
    [defined |-> TRUE, hasPosition |-> hasPosition, position |-> position,
     hasColor |-> hasColor, color |-> color]
Child(kind, hasGeometry, geometry) ==
    [kind |-> kind, hasGeometry |-> hasGeometry, geometry |-> geometry]
NoGeometry == [defined |-> FALSE, hasPosition |-> FALSE, position |-> <<>>,
               hasColor |-> FALSE, color |-> <<>>]

\* What the delegate loader may hand back.
LoaderResults ==
    { [error |-> TRUE,  isGroup |-> FALSE, children |-> <<>>],
      [error |-> FALSE, isGroup |-> TRUE,  children |-> <<>>],
      [error |-> FALSE, isGroup |-> FALSE, children |->
          <<Child("Points", TRUE,
                  Geometry(TRUE, <<Num(0), Num(0), Num(1), Num(2), Num(2), Num(12)>>,
                           FALSE, <<>>))>>],
      [error |-> FALSE, isGroup |-> TRUE, children |->
          <<Child("Points", TRUE,
                  Geometry(TRUE, <<Num(4), Num(4), Num(-12)>>,
                           TRUE, <<Num(1), Num(0), Rat(1, 2)>>))>>],
      [error |-> FALSE, isGroup |-> TRUE, children |->
          <<Child("Object3D", TRUE,
                  Geometry(TRUE, <<Num(1), Num(1), NaN>>, FALSE, <<>>))>>],
      [error |-> FALSE, isGroup |-> TRUE, children |->
          <<Child("Object3D", FALSE, NoGeometry)>>],
      [error |-> FALSE, isGroup |-> FALSE, children |->
          <<Child("Points", TRUE, NoGeometry)>>],
      [error |-> FALSE, isGroup |-> FALSE, children |->
          <<Child("Points", TRUE, Geometry(FALSE, <<>>, FALSE, <<>>))>>],
      [error |-> FALSE, isGroup |-> FALSE, children |->
          <<Child("Points", TRUE, Geometry(TRUE, <<>>, FALSE, <<>>))>>] }

\* Bounds and extrema given to updateHeightBounds: ordered pairs, or NaN.
HeightSet == {Num(-10), Num(-5), Num(0), Num(3), Num(5)}
HeightPairs == {<<lo, hi>> \in HeightSet \X HeightSet : Leq(lo, hi)} \cup {<<NaN, NaN>>}

\* The clouds rendered, written [fill, zs]: fill points at elevation -20
\* (below every range of HeightPairs) followed by one point at each elevation
\* of zs; x and y are 0.  The positions array of such a cloud:
RenderZ == {Num(-20), Num(0), Num(5), NaN}
ElevationOf(c, i) == IF i < c.fill THEN Num(-20) ELSE c.zs[i - c.fill + 1]
CloudPositions(c) ==
    [j \in 1..(3 * (c.fill + Len(c.zs))) |->
        IF j % 3 # 0 THEN Num(0) ELSE ElevationOf(c, j \div 3 - 1)]

Pending == [status |-> "pending", value |-> <<>>, error |-> "", calls |-> <<>>,
            log |-> <<>>]
Idle    == [fn |-> "none", data |-> <<>>, mapType |-> "default", cb |-> FALSE]

(***************************************************************************)
(* SpecCall: one call on one input                                         *)
(***************************************************************************)
SessionInit ==
    /\ pointClouds = <<>>
    /\ selectedPoints = <<>>
    /\ colorMapType = "default"
    /\ heightFilterEnabled = FALSE
    /\ heightBounds = <<Num(-10), Num(10)>>
    /\ heightRange = <<Num(-10), Num(10)>>
    /\ drops = <<>>
    /\ now = 0
    /\ lastMerge = [called |-> FALSE, prev |-> <<Num(-10), Num(10)>>,
                    minZ |-> Num(0), maxZ |-> Num(0)]
    /\ steps = 0
    /\ dropped = 0

sessionVars == <<pointClouds, selectedPoints, colorMapType, heightFilterEnabled,
                 heightBounds, heightRange, drops, now, lastMerge, steps, dropped>>

InitCall ==
    /\ \/ \E d \in SeqsOf(CsvRowSet, 0, MaxRows), m \in Palettes, c \in BOOLEAN :
             task = [fn |-> "loadCSV", data |-> d, mapType |-> m, cb |-> c]
       \/ \E h \in PcdHeaderSet, d \in SeqsOf(PcdLineSet, 0, MaxLines), c \in BOOLEAN :
             task = [fn |-> "loadPCD", data |-> h \o d, mapType |-> "default", cb |-> c]
       \/ \E d \in SeqsOf({Num(z) : z \in 0..MaxZ}, 1, MaxValues),
             m \in Palettes \cup {"other"} :
             task = [fn |-> "createColorMapForCSV", data |-> d, mapType |-> m,
                     cb |-> FALSE]
       \/ \E b \in HeightPairs, z \in HeightPairs :
             task = [fn |-> "updateHeightBounds", data |-> b \o z,
                     mapType |-> "default", cb |-> FALSE]
       \/ \E zs \in SeqsOf(RenderZ, 0, MaxValues), range \in HeightPairs,
             enabled \in BOOLEAN :
             task = [fn |-> "applyHeightFilter",
                     data |-> [cloud |-> [fill |-> 0, zs |-> zs], heightRange |-> range],
                     mapType |-> "default", cb |-> enabled]
       \/ \E enabled \in BOOLEAN :
             task = [fn |-> "applyHeightFilter",
                     data |-> [cloud |-> [fill |-> MaxPoints - 1, zs |-> <<Num(0)>>],
                               heightRange |-> <<Num(-10), Num(5)>>],
                     mapType |-> "default", cb |-> enabled]
    /\ result = Pending
    /\ SessionInit

\* Papa.parse calls complete with the decoded rows.
ParseCSV ==
    /\ task.fn = "loadCSV" /\ result.status = "pending"
    /\ result' = loadCSV(task.data, task.mapType, task.cb)
    /\ UNCHANGED <<task, sessionVars>>

\* fileReader.onload: Tier 1 settles the promise or starts the delegate loader.
ParsePCD ==
    /\ task.fn = "loadPCD" /\ result.status = "pending"
    /\ result' = loadPCDTier1(task.data, task.cb)
    /\ UNCHANGED <<task, sessionVars>>

\* The delegate loader calls back, with an object or an error.
LoaderDone ==
    /\ task.fn = "loadPCD" /\ result.status = "loading"
    /\ \E lr \in LoaderResults : result' = loadPCDTier2(lr, task.cb)
    /\ UNCHANGED <<task, sessionVars>>

\* The file cannot be read: Papa's error callback, fileReader.onerror.
ReadError ==
    /\ task.fn \in {"loadCSV", "loadPCD"} /\ result.status = "pending"
    /\ result' = Rejected("read error", <<>>, <<>>)
    /\ UNCHANGED <<task, sessionVars>>

\* createColorMapForCSV called on an array.
ColorMap ==
    /\ task.fn = "createColorMapForCSV" /\ result.status = "pending"
    /\ result' = [status |-> "returned",
                  value  |-> createColorMapForCSV(task.data, task.mapType),
                  error  |-> "", calls |-> <<>>, log |-> <<>>]
    /\ UNCHANGED <<task, sessionVars>>

\* updateHeightBounds(minZ, maxZ) applied to the bounds [lo, hi].
MergeBounds ==
    /\ task.fn = "updateHeightBounds" /\ result.status = "pending"
    /\ result' = [status |-> "returned",
                  value  |-> updateHeightBounds(<<task.data[1], task.data[2]>>,
                                                task.data[3], task.data[4]),
                  error  |-> "", calls |-> <<>>, log |-> <<>>]
    /\ UNCHANGED <<task, sessionVars>>

\* exportToCSV on the list holding the one cloud just parsed, nothing
\* selected, and loadCSV on the exported text.
ExportCSV ==
    /\ task.fn \in {"loadCSV", "loadPCD"} /\ result.status = "resolved"
    /\ LET cloud == [id |-> <<0, 0>>, name |-> "file", data |-> result.value,
                     visible |-> TRUE,
                     type |-> IF task.fn = "loadCSV" THEN "csv" ELSE "pcd"]
           text  == csvContent(<<cloud>>, <<>>)
       IN  result' = [status |-> "exported",
                      value  |-> [record   |-> result.value,
                                  text     |-> text,
                                  reparsed |-> loadCSV(papaParse(text),
                                                       task.mapType, FALSE)],
                      error  |-> "", calls |-> result.calls, log |-> result.log]
    /\ UNCHANGED <<task, sessionVars>>

\* The scene renders one cloud; task.cb is heightFilterEnabled.
RenderPoints ==
    /\ task.fn = "applyHeightFilter" /\ result.status = "pending"
    /\ result' = [status |-> "rendered",
                  value  |-> indexAttribute(CloudPositions(task.data.cloud), task.cb,
                                            task.data.heightRange),
                  error  |-> "", calls |-> <<>>, log |-> <<>>]
    /\ UNCHANGED <<task, sessionVars>>

NextCall == ParseCSV \/ ParsePCD \/ LoaderDone \/ ReadError \/ ColorMap \/ MergeBounds
               \/ ExportCSV \/ RenderPoints

SpecCall == InitCall /\ [][NextCall]_vars

(***************************************************************************)
(* Properties of the parsers and of the colormap (SpecCall)                *)
(***************************************************************************)
Range(f) == {f[i] : i \in DOMAIN f}
Count(f, x) == Cardinality({i \in DOMAIN f : f[i] = x})

CsvDone   == task.fn = "loadCSV" /\ result.status \in {"resolved", "rejected"}
CsvOk     == task.fn = "loadCSV" /\ result.status = "resolved"
PcdOk     == task.fn = "loadPCD" /\ result.status = "resolved"
Tier1Ok   == PcdOk /\ "loader.load" \notin Range(result.log)
Tier2Ok   == PcdOk /\ "loader.load" \in Range(result.log)

\* A cell that holds a finite number.
FiniteNumber(c) == c.k = "fin"
\* A row the parser is to accept: at least 3 fields, x, y, z finite numbers.
ValidRow(row) ==
    Len(row) >= 3 /\ FiniteNumber(row[1]) /\ FiniteNumber(row[2]) /\ FiniteNumber(row[3])
ValidRows(data) == SelectSeq(data, ValidRow)
AcceptedRows(data) == SelectSeq(data, csvRowAccepted)

RECURSIVE CoordsOf(_)
CoordsOf(rows) ==
    IF rows = <<>> THEN <<>>
    ELSE <<Head(rows)[1], Head(rows)[2], Head(rows)[3]>> \o CoordsOf(Tail(rows))
RECURSIVE ThirdOf(_)
ThirdOf(rows) ==
    IF rows = <<>> THEN <<>> ELSE <<Head(rows)[3]>> \o ThirdOf(Tail(rows))

\* C1: whenever loadCSV succeeds, positions/3 = colors/3 = zValues.length and,
\* when the colours are read from the file, colour i is the colour of the row
\* point i came from (also when row 0 has 6 fields and a later accepted row
\* has 3 to 5).
C1_CsvAligned ==
    CsvOk =>
        LET v    == result.value
            rows == AcceptedRows(task.data)
        IN  /\ Len(v.positions) = 3 * Len(v.zValues)
            /\ Len(v.colors) = Len(v.positions)
            /\ Len(rows) = Len(v.zValues)
            /\ v.hasRGB =>
                 \A i \in 1..Len(rows) :
                    /\ Len(rows[i]) >= 6
                    /\ 3 * i <= Len(v.colors)
                    /\ <<v.colors[3 * i - 2], v.colors[3 * i - 1], v.colors[3 * i]>>
                          = csvRowColor(rows[i])

InUnit(c) == c.k = "fin" /\ 0 <= c.n /\ c.n <= c.d

\* C2: for every non-empty array and every palette createColorMapForCSV
\* returns 3 x length components, none NaN, all within [0, 1], also when all
\* the values are equal.
C2_ColorMapInUnit ==
    (task.fn = "createColorMapForCSV" /\ result.status = "returned") =>
        /\ Len(result.value) = 3 * Len(task.data)
        /\ \A j \in 1..Len(result.value) : InUnit(result.value[j])

\* C3: loadCSV accepts a row iff it has at least 3 fields and its first three
\* fields are finite numbers; the other rows are skipped without aborting, and
\* the accepted points are in positions and zValues in row order, unchanged.
C3_CsvAcceptsExactlyValidRows ==
    CsvDone /\ result.error # "read error" =>
        LET rows == ValidRows(task.data)
        IN  IF rows = <<>> THEN result.status = "rejected"
            ELSE /\ result.status = "resolved"
                 /\ result.value.zValues = ThirdOf(rows)
                 /\ result.value.positions = Float32Array(CoordsOf(rows))

\* C4: every coordinate of a record produced by Tier 1 of loadPCD is finite.
C4_Tier1Finite ==
    Tier1Ok => \A j \in 1..Len(result.value.positions) :
                   FiniteNumber(result.value.positions[j])

\* The data lines of the task that carry a point, in order.
PcdDataSection(lines) == SelectSeq(lines, LAMBDA l : l.kw = "" /\ Len(l.values) >= 3)
Gray == Rat(7, 10)

\* C5: in a Tier 1 record colors.length = positions.length: either every point
\* has the colour read from its own fields 3 to 5, or no colour was read, every
\* point is gray (0.7, 0.7, 0.7) and hasColor is false.
C5_Tier1ColorsAligned ==
    Tier1Ok =>
        LET v     == result.value
            lines == PcdDataSection(task.data)
        IN  /\ Len(v.colors) = Len(v.positions)
            /\ \/ /\ v.hasColor
                  /\ \A i \in 1..Len(lines) :
                        /\ Len(lines[i].values) >= 6
                        /\ 3 * i <= Len(v.colors)
                        /\ \A c \in 1..3 :
                              v.colors[3 * (i - 1) + c]
                                 = Div(ToNumber(lines[i].values[3 + c]), Num(255))
               \/ /\ ~v.hasColor
                  /\ \A j \in 1..Len(v.colors) : v.colors[j] = Gray

\* C6: if loadCSV accepts zero rows the promise is rejected with the
\* no-valid-points error: no record, and the bounds callback is never invoked.
C6_CsvEmptyRejected ==
    (CsvDone /\ result.error # "read error" /\ AcceptedRows(task.data) = <<>>) =>
        /\ result.status = "rejected"
        /\ result.error = "no valid points"
        /\ result.value = <<>>
        /\ result.calls = <<>>
        /\ "updateHeightBounds" \notin Range(result.log)
C6_Witness ==
    /\ CsvDone /\ task.cb /\ Len(task.data) = 2
    /\ AcceptedRows(task.data) = <<>>
    /\ result.error = "no valid points"

\* C7: loadPCD never resolves with a record of zero points.
C7_PcdNeverEmpty ==
    PcdOk => Len(result.value.positions) > 0 /\ Len(result.value.zValues) > 0

\* The least and the greatest of the values an array holds (as numbers).
IsLeast(m, values) ==
    /\ \E j \in 1..Len(values) : ToNumber(values[j]) = m
    /\ \A j \in 1..Len(values) : Leq(m, values[j])
IsGreatest(m, values) ==
    /\ \E j \in 1..Len(values) : ToNumber(values[j]) = m
    /\ \A j \in 1..Len(values) : Leq(values[j], m)
HasNaN(values) == \E j \in 1..Len(values) : isNaN(values[j])

\* C9: a parse given a bounds callback that succeeds with at least one z value
\* invokes it exactly once, with (min(zValues), max(zValues)) (NaN when a z
\* value is NaN, as Math.min and Math.max give), before the promise resolves;
\* a parse that fails never invokes it.
C9_CallbackOncePerSuccess ==
    (task.fn \in {"loadCSV", "loadPCD"} /\ task.cb) =>
        /\ (result.status = "resolved" /\ Len(result.value.zValues) > 0) =>
              /\ Len(result.calls) = 1
              /\ Count(result.log, "updateHeightBounds") = 1
              /\ result.log[Len(result.log)] = "resolve"
              /\ result.log[Len(result.log) - 1] = "updateHeightBounds"
              /\ IF HasNaN(result.value.zValues)
                 THEN result.calls[1] = <<NaN, NaN>>
                 ELSE /\ IsLeast(result.calls[1][1], result.value.zValues)
                      /\ IsGreatest(result.calls[1][2], result.value.zValues)
        /\ result.status \in {"rejected", "loading", "pending"} =>
              /\ result.calls = <<>>
              /\ "updateHeightBounds" \notin Range(result.log)
C9_Witness ==
    /\ Tier2Ok /\ task.cb
    /\ Len(result.calls) = 1
    /\ result.calls[1][1] # result.calls[1][2]

(***************************************************************************)
(* Spec: a session of PointCloudApp                                        *)
(***************************************************************************)
MaxFiles  == 3   \* files dropped in a session, over all its drops
MaxSteps  == 5   \* handler runs of a session

\* The files a user may drop, by name.
FileNames == {"flat.csv", "bad.csv", "scan.pcd", "notes.txt"}

PcdFile(fields, data, lines) ==
    <<HeaderLine("# .PCD", <<>>, <<>>), HeaderLine("VERSION", <<".7">>, <<>>),
      HeaderLine("FIELDS", fields, <<>>), HeaderLine("POINTS", <<>>, <<Num(2)>>),
      HeaderLine("DATA", <<data>>, <<>>)>> \o lines

\* The decoded content of each file: flat.csv has no colours and reaches below
\* the initial bounds, bad.csv has no valid row, scan.pcd is ASCII with a nan
\* elevation.
FileData(name) ==
    CASE name = "flat.csv" -> << <<Num(1), Num(2), Num(-20)>>, <<Num(3), Num(4), Num(5)>> >>
      [] name = "bad.csv"  -> << <<Num(1), Num(2), NaN>> >>
      [] name = "scan.pcd" -> PcdFile(<<"x", "y", "z">>, "ascii",
                                 <<DataLine(<<Num(0), Num(0), Num(0)>>),
                                   DataLine(<<Num(1), Num(2), Text>>)>>)
      [] OTHER             -> <<>>

\* What the delegate loader hands back for each file it is started on.
FileLoaded(name) ==
    [error |-> FALSE, isGroup |-> FALSE, children |->
        <<Child("Points", TRUE,
                Geometry(TRUE, <<Num(0), Num(0), Num(1), Num(2), Num(2), Num(12)>>,
                         FALSE, <<>>))>>]

\* file.name.split('.').pop()?.toLowerCase() || ''
fileExtension(name) ==
    CASE name \in {"flat.csv", "bad.csv"} -> "csv"
      [] name = "scan.pcd"                 -> "pcd"
      [] OTHER                             -> "txt"

\* await loadCSV(file, colorMapType, updateHeightBounds) or
\* await loadPCD(file, updateHeightBounds)
parseFile(name, mapType) ==
    IF fileExtension(name) = "csv" THEN loadCSV(FileData(name), mapType, TRUE)
    ELSE LET tier1 == loadPCDTier1(FileData(name), TRUE)
         IN  IF tier1.status = "loading"
             THEN loadPCDTier2(FileLoaded(name), TRUE)
             ELSE tier1

\* The outcome of parsing each file under each palette.
Parsed == [name \in FileNames |-> [m \in Palettes |-> parseFile(name, m)]]

\* The branch of the loop body that logs 'Unsupported file format' and continues.
unsupported(name) == fileExtension(name) \notin {"csv", "pcd"}

\* A plausible slip: an unsupported file ends the loop (break for continue).
nextParsed_Abort(files, i) ==
    IF i > Len(files) THEN i
    ELSE IF unsupported(files[i]) THEN Len(files) + 1 ELSE i

\* The index of the first file from i on that is parsed (the loop runs through
\* the unsupported ones without awaiting), Len(files) + 1 if there is none.
RECURSIVE nextParsed(_, _)
nextParsed(files, i) ==
    IF i > Len(files) THEN i
    ELSE IF unsupported(files[i]) THEN nextParsed(files, i + 1) ELSE i

\* The cloud built from a parsed file: id `${Date.now()}-${i}`.
newPointCloud(name, i, data, clock) ==
    [id |-> <<clock, i - 1>>, name |-> name, data |-> data, visible |-> TRUE,
     type |-> fileExtension(name)]

RemoveAt(seq, d) == SubSeq(seq, 1, d - 1) \o SubSeq(seq, d + 1, Len(seq))

Init ==
    /\ task = Idle
    /\ result = Pending
    /\ SessionInit

\* Every handler run counts as a step of the session.
Step ==
    /\ steps < MaxSteps
    /\ steps' = steps + 1
    /\ UNCHANGED <<task, result, dropped>>

\* handleFileDrop(acceptedFiles) up to its first await: newPointClouds is a copy
\* of the list of the render the handler belongs to, colorMapType is that
\* render's palette.  With no file to parse it runs to its end at once.
\* (listed is history: the list the copy was taken from.)
handleFileDrop(files) ==
    /\ steps < MaxSteps
    /\ steps' = steps + 1
    /\ dropped + Len(files) <= MaxFiles
    /\ dropped' = dropped + Len(files)
    /\ UNCHANGED <<task, result>>
    /\ LET first == nextParsed(files, 1)
       IN  IF first > Len(files)
           THEN UNCHANGED <<pointClouds, drops>>
           ELSE /\ drops' = Append(drops, [files |-> files, i |-> first,
                                          newPointClouds |-> pointClouds,
                                          colorMapType |-> colorMapType,
                                          listed |-> pointClouds])
                /\ UNCHANGED pointClouds
    /\ UNCHANGED <<selectedPoints, colorMapType, heightFilterEnabled,
                   heightBounds, heightRange, now, lastMerge>>

\* The awaited parse of file i of drop d settles, tick milliseconds after the
\* last reading of the clock: the bounds callback (if the parse made it) has
\* merged the bounds, the cloud is pushed or the error is caught, and the loop
\* runs on to its next await or to setPointClouds.
fileParsed(d, tick) ==
    LET drop    == drops[d]
        name    == drop.files[drop.i]
        outcome == Parsed[name][drop.colorMapType]
        pushed  == IF outcome.status = "resolved"
                   THEN Append(drop.newPointClouds,
                               newPointCloud(name, drop.i, outcome.value, now + tick))
                   ELSE drop.newPointClouds
        next    == nextParsed(drop.files, drop.i + 1)
    IN  /\ Step
        /\ now' = now + tick
        /\ IF outcome.calls # <<>>
           THEN LET merged == updateHeightBounds(heightBounds, outcome.calls[1][1],
                                                 outcome.calls[1][2])
                IN  /\ heightBounds' = merged
                    /\ heightRange' = merged
                    /\ lastMerge' = [called |-> TRUE, prev |-> heightBounds,
                                     minZ |-> outcome.calls[1][1],
                                     maxZ |-> outcome.calls[1][2]]
           ELSE UNCHANGED <<heightBounds, heightRange, lastMerge>>
        /\ IF next > Len(drop.files)
           THEN /\ pointClouds' = pushed
                /\ drops' = RemoveAt(drops, d)
           ELSE /\ drops' = [drops EXCEPT ![d] = [drop EXCEPT !.i = next,
                                                              !.newPointClouds = pushed]]
                /\ UNCHANGED pointClouds
        /\ UNCHANGED <<selectedPoints, colorMapType, heightFilterEnabled>>

\* handleSelectPointCloud(id): toggles the id in selectedPoints.
handleSelectPointCloud(id) ==
    /\ Step
    /\ selectedPoints' = IF id \in Range(selectedPoints)
                         THEN SelectSeq(selectedPoints, LAMBDA item : item # id)
                         ELSE Append(selectedPoints, id)
    /\ UNCHANGED <<pointClouds, colorMapType, heightFilterEnabled,
                   heightBounds, heightRange, drops, now, lastMerge>>

\* deleteSelectedPointClouds()
deleteSelectedPointClouds ==
    /\ Step
    /\ Len(selectedPoints) # 0
    /\ pointClouds' = SelectSeq(pointClouds, LAMBDA pc : pc.id \notin Range(selectedPoints))
    /\ selectedPoints' = <<>>
    /\ UNCHANGED <<colorMapType, heightFilterEnabled, heightBounds,
                   heightRange, drops, now, lastMerge>>

\* togglePointCloudVisibility(id)
togglePointCloudVisibility(id) ==
    /\ Step
    /\ pointClouds' = [j \in 1..Len(pointClouds) |->
                         IF pointClouds[j].id = id
                         THEN [pointClouds[j] EXCEPT !.visible = ~pointClouds[j].visible]
                         ELSE pointClouds[j]]
    /\ UNCHANGED <<selectedPoints, colorMapType, heightFilterEnabled,
                   heightBounds, heightRange, drops, now, lastMerge>>

\* A plausible slip: every cloud is recoloured, whatever its type and colours.
recolored_All(pc, type) ==
    [pc EXCEPT !.data.colors = createColorMapForCSV(pc.data.zValues, type)]

\* The map of handleColorMapChange on one cloud.
recolored(pc, type) ==
    IF pc.type = "csv" /\ ~pc.data.hasRGB
    THEN [pc EXCEPT !.data.colors = createColorMapForCSV(pc.data.zValues, type)]
    ELSE pc

\* handleColorMapChange(type)
handleColorMapChange(type) ==
    /\ Step
    /\ colorMapType' = type
    /\ pointClouds' = [j \in 1..Len(pointClouds) |-> recolored(pointClouds[j], type)]
    /\ UNCHANGED <<selectedPoints, heightFilterEnabled, heightBounds,
                   heightRange, drops, now, lastMerge>>

\* setHeightFilterEnabled, from the switch
setHeightFilterEnabled(checked) ==
    /\ Step
    /\ heightFilterEnabled' = checked
    /\ UNCHANGED <<pointClouds, selectedPoints, colorMapType,
                   heightBounds, heightRange, drops, now, lastMerge>>

\* handleHeightRangeChange(value): the slider, enabled with the filter, gives
\* two ordered values within heightBounds.
handleHeightRangeChange(value) ==
    /\ Step
    /\ heightFilterEnabled
    /\ Leq(heightBounds[1], value[1]) /\ Leq(value[1], value[2])
    /\ Leq(value[2], heightBounds[2])
    /\ heightRange' = <<value[1], value[2]>>
    /\ UNCHANGED <<pointClouds, selectedPoints, colorMapType,
                   heightFilterEnabled, heightBounds, drops, now, lastMerge>>

\* A plausible slip: the new value is stored without looking at the other end.
heightInputRange_NoClamp(range, index, numValue) ==
    [range EXCEPT ![index + 1] = numValue]

\* The range handleHeightInputChange sets for the parsed number numValue.
heightInputRange(range, index, numValue) ==
    LET newRange == [range EXCEPT ![index + 1] = numValue]
    IN  IF index = 0 /\ Lt(newRange[2], numValue)
        THEN [newRange EXCEPT ![1] = newRange[2]]
        ELSE IF index = 1 /\ Lt(numValue, newRange[1])
        THEN [newRange EXCEPT ![2] = newRange[1]]
        ELSE newRange

\* handleHeightInputChange(index, value), numValue = parseFloat(value); the
\* input fields are enabled with the filter.
handleHeightInputChange(index, numValue) ==
    /\ Step
    /\ heightFilterEnabled
    /\ IF ~isNaN(numValue)
       THEN heightRange' = heightInputRange(heightRange, index, numValue)
       ELSE UNCHANGED heightRange
    /\ UNCHANGED <<pointClouds, selectedPoints, colorMapType,
                   heightFilterEnabled, heightBounds, drops, now, lastMerge>>

\* exportToCSV(): builds csvContent(pointClouds, selectedPoints) and hands it
\* to a download link; no state of the component is set.
exportToCSV ==
    /\ Step
    /\ UNCHANGED <<pointClouds, selectedPoints, colorMapType, heightFilterEnabled,
                   heightBounds, heightRange, drops, now, lastMerge>>

\* selectTransformTool(tool): sets activeTransform, which is not part of the
\* state kept here.
selectTransformTool(tool) ==
    /\ Step
    /\ UNCHANGED <<pointClouds, selectedPoints, colorMapType, heightFilterEnabled,
                   heightBounds, heightRange, drops, now, lastMerge>>

\* The values the slider and the input fields are given.
HeightInputs == {Num(-30), Num(0), Num(30), NaN}

Next ==
    \/ \E files \in SeqsOf(FileNames, 0, MaxFiles - dropped) : handleFileDrop(files)
    \/ \E d \in 1..Len(drops), tick \in {0, 1} : fileParsed(d, tick)
    \/ \E j \in 1..Len(pointClouds) : handleSelectPointCloud(pointClouds[j].id)
    \/ deleteSelectedPointClouds
    \/ \E j \in 1..Len(pointClouds) : togglePointCloudVisibility(pointClouds[j].id)
    \/ \E type \in Palettes : handleColorMapChange(type)
    \/ \E checked \in BOOLEAN : setHeightFilterEnabled(checked)
    \/ \E lo, hi \in HeightInputs : handleHeightRangeChange(<<lo, hi>>)
    \/ \E index \in {0, 1}, v \in HeightInputs : handleHeightInputChange(index, v)
    \/ exportToCSV
    \/ \E tool \in {"translate", "rotate"} : selectTransformTool(tool)

Spec == Init /\ [][Next]_vars

(***************************************************************************)
(* SpecRange: the height range under bounds merges, the slider and the     *)
(* input fields                                                            *)
(***************************************************************************)
\* updateHeightBounds(minZ, maxZ) called by a parse: the functional update of
\* heightBounds, which also sets heightRange to the merged bounds.
UpdateHeightBounds(minZ, maxZ) ==
    /\ Step
    /\ LET merged == updateHeightBounds(heightBounds, minZ, maxZ)
       IN  /\ heightBounds' = merged
           /\ heightRange' = merged
           /\ lastMerge' = [called |-> TRUE, prev |-> heightBounds,
                            minZ |-> minZ, maxZ |-> maxZ]
    /\ UNCHANGED <<pointClouds, selectedPoints, colorMapType, heightFilterEnabled,
                   drops, now>>

NextRange ==
    \/ \E minZ, maxZ \in HeightInputs : Leq(minZ, maxZ) /\ UpdateHeightBounds(minZ, maxZ)
    \/ \E checked \in BOOLEAN : setHeightFilterEnabled(checked)
    \/ \E lo, hi \in HeightInputs : handleHeightRangeChange(<<lo, hi>>)
    \/ \E index \in {0, 1}, v \in HeightInputs : handleHeightInputChange(index, v)

SpecRange == Init /\ [][NextRange]_vars

(***************************************************************************)
(* Properties of the bounds tracker                                        *)
(***************************************************************************)
\* C8: across any sequence of session actions heightBounds never narrows:
\* heightBounds[0] never increases and heightBounds[1] never decreases.
C8_BoundsNeverNarrow ==
    [][/\ Leq(heightBounds'[1], heightBounds[1])
       /\ Leq(heightBounds[2], heightBounds'[2])]_vars

MergeDone == task.fn = "updateHeightBounds" /\ result.status = "returned"

\* The lesser and the greater of two numbers, NaN if either is NaN.
LesserOf(a, b)  == IF a.k = "nan" \/ b.k = "nan" THEN NaN ELSE IF Leq(a, b) THEN a ELSE b
GreaterOf(a, b) == IF a.k = "nan" \/ b.k = "nan" THEN NaN ELSE IF Leq(a, b) THEN b ELSE a

\* C10: updateHeightBounds(minZ, maxZ) applied to [lo, hi] yields exactly
\* [min(lo, minZ), max(hi, maxZ)]; an input inside the bounds leaves them
\* unchanged; merge([-5,5],-10,3) = [-10,5] and merge([-10,5],0,0) = [-10,5].
C10_MergeIsMinMax ==
    /\ MergeDone =>
          LET lo   == task.data[1]
              hi   == task.data[2]
              minZ == task.data[3]
              maxZ == task.data[4]
          IN  /\ result.value = <<LesserOf(lo, minZ), GreaterOf(hi, maxZ)>>
              /\ (Leq(lo, minZ) /\ Leq(maxZ, hi)) => result.value = <<lo, hi>>
    /\ updateHeightBounds(<<Num(-5), Num(5)>>, Num(-10), Num(3)) = <<Num(-10), Num(5)>>
    /\ updateHeightBounds(<<Num(-10), Num(5)>>, Num(0), Num(0)) = <<Num(-10), Num(5)>>
C10_Witness ==
    /\ MergeDone
    /\ task.data = <<Num(-5), Num(5), Num(-10), Num(3)>>
    /\ result.value = <<Num(-10), Num(5)>>

(***************************************************************************)
(* Properties of exportToCSV (SpecCall)                                    *)
(***************************************************************************)
Exported == result.status = "exported"

\* |a - b| <= 1/255
Within255th(a, b) == Leq(Sub(a, b), Rat(1, 255)) /\ Leq(Sub(b, a), Rat(1, 255))

\* C14: exporting a record and parsing the exported text with loadCSV yields
\* hasRGB = true, the same number of points, the same positions in the same
\* order and every colour component within 1/255 of the original.
C14_ExportRoundTrip ==
    Exported =>
        LET v == result.value.record
            r == result.value.reparsed
        IN  /\ r.status = "resolved"
            /\ r.value.hasRGB
            /\ r.value.positions = v.positions
            /\ Len(r.value.colors) = Len(v.colors)
            /\ \A j \in 1..Len(v.colors) : Within255th(r.value.colors[j], v.colors[j])

\* A cell that is the numeral of an integer in 0..255.
ByteCell(cell) == cell.k = "numeral" /\ cell.d = 1 /\ 0 <= cell.n /\ cell.n <= 255

\* C15: the exported text is the header line X,Y,Z,R,G,B followed by exactly
\* one row per point of each exported cloud, points in buffer order, each row
\* holding x, y, z as stored and R, G, B = round(c x 255), every one of them an
\* integer in 0..255.
C15_ExportText ==
    Exported =>
        LET v    == result.value.record
            text == result.value.text
        IN  /\ text[1] = csvHeader
            /\ 3 * (Len(text) - 1) = Len(v.positions)
            /\ \A i \in 1..(Len(text) - 1) :
                  /\ Len(text[i + 1]) = 6
                  /\ \A c \in 1..3 :
                        /\ 3 * (i - 1) + c <= Len(v.positions)
                        /\ text[i + 1][c] = templateText(v.positions[3 * (i - 1) + c])
                        /\ ByteCell(text[i + 1][3 + c])
                        /\ 3 * (i - 1) + c <= Len(v.colors)
                        /\ text[i + 1][3 + c] =
                              Numeral(MathRound(Mul(v.colors[3 * (i - 1) + c], Num(255))))

(***************************************************************************)
(* Properties of the two tiers of loadPCD (SpecCall)                       *)
(***************************************************************************)
\* loadPCD has read the file and gone past its first step.
PcdStarted ==
    task.fn = "loadPCD" /\ result.status # "pending" /\ result.error # "read error"

MarkerLine(lines)  == lines # <<>> /\ Head(lines).kw = "# .PCD"
VersionLine(lines) == \E l \in Range(lines) : l.kw = "VERSION"
LoaderInvoked == "loader.load" \in Range(result.log)
RejectedAtOnce ==
    /\ result.status = "rejected" /\ result.error = "invalid format"
    /\ result.value = <<>> /\ result.calls = <<>> /\ result.log = <<"reject">>

\* C16 (as stated): loadPCD parses a file only if its text carries both the
\* '# .PCD' marker and the VERSION keyword; a file missing either is rejected
\* with the invalid-format error at once: no data line parsed, no loader, no
\* bounds callback.
C16_PcdSignatureBoth ==
    (PcdStarted /\ ~(MarkerLine(task.data) /\ VersionLine(task.data))) => RejectedAtOnce

\* C16 (amended): loadPCD parses a file only if its text starts with the
\* '# .PCD' marker or contains the VERSION keyword; a file with neither is
\* rejected with the invalid-format error at once, and a file with either is
\* not rejected for its format.
C16_PcdSignatureEither ==
    PcdStarted =>
        IF ~MarkerLine(task.data) /\ ~VersionLine(task.data)
        THEN RejectedAtOnce
        ELSE result.error # "invalid format"
C16_Witness ==
    /\ PcdStarted /\ RejectedAtOnce /\ task.cb
    /\ \E l \in Range(task.data) : l.kw = "" /\ Len(l.values) >= 3


\* The conditions under which Tier 1 produces a record, read off the file: the
\* DATA line says ascii, the POINTS line before it declares a positive count
\* and a line after it holds at least three values.
DataLineIndex(lines) ==
    IF \E i \in 1..Len(lines) : lines[i].kw = "DATA"
    THEN CHOOSE i \in 1..Len(lines) :
            lines[i].kw = "DATA" /\ \A j \in 1..(i - 1) : lines[j].kw # "DATA"
    ELSE 0
Tier1Conditions(lines) ==
    LET at_ == DataLineIndex(lines)
    IN  /\ at_ > 0
        /\ "ascii" \in Range(lines[at_].names)
        /\ \E i \in 1..(at_ - 1) :
              /\ lines[i].kw = "POINTS" /\ lines[i].values # <<>>
              /\ lines[i].values[1].k = "fin" /\ lines[i].values[1].n >= lines[i].values[1].d
        /\ \E i \in (at_ + 1)..Len(lines) : Len(lines[i].values) >= 3

\* C17: the delegate loader is invoked only when Tier 1 did not produce a
\* record (data not ASCII, declared count not positive, or no point parsed);
\* when Tier 1 produces a record the loader is never invoked; when the loader
\* reports an error the promise is rejected with no record and no bounds
\* update.
C17_LoaderOnlyAsFallback ==
    (PcdStarted /\ result.error # "invalid format") =>
        /\ LoaderInvoked <=> ~Tier1Conditions(task.data)
        /\ Tier1Conditions(task.data) =>
              /\ result.status \in {"resolved", "exported"}
              /\ Len(result.log) >= 1 /\ result.log[Len(result.log)] = "resolve"
        /\ result.error = "loader error" =>
              /\ result.status = "rejected"
              /\ result.value = <<>> /\ result.calls = <<>>
              /\ "updateHeightBounds" \notin Range(result.log)
C17_Witness ==
    /\ PcdStarted /\ task.cb
    /\ result.error = "loader error"
    /\ \E l \in Range(task.data) : l.kw = "DATA" /\ "ascii" \in Range(l.names)

(***************************************************************************)
(* Properties of the palettes (SpecCall)                                   *)
(***************************************************************************)
\* createColorMapForCSV has returned for an array whose values are not all
\* equal, under palette m.
ColorMapDone(m) ==
    /\ task.fn = "createColorMapForCSV" /\ result.status = "returned"
    /\ task.mapType = m
    /\ \E i, j \in 1..Len(task.data) : task.data[i] # task.data[j]

LeastOf(values)    == CHOOSE m \in Range(values) : \A v \in Range(values) : Leq(m, v)
GreatestOf(values) == CHOOSE m \in Range(values) : \A v \in Range(values) : Leq(v, m)
\* The normalized position of value i of the task within the array's own extrema.
PositionOf(i) ==
    Div(Sub(task.data[i], LeastOf(task.data)),
        Sub(GreatestOf(task.data), LeastOf(task.data)))
\* Colour i of the returned array.
ColorAt(i) == <<result.value[3 * i - 2], result.value[3 * i - 1], result.value[3 * i]>>

\* The colour of a hue of H degrees (0 <= H < 360) at full saturation and
\* value: the standard six-sector conversion.
HueColor(H) ==
    LET sector == H.n \div (H.d * 60)
        f      == Sub(Div(H, Num(60)), Num(sector))
        g      == Sub(Num(1), f)
    IN  CASE sector = 0 -> <<Num(1), f, Num(0)>>
          [] sector = 1 -> <<g, Num(1), Num(0)>>
          [] sector = 2 -> <<Num(0), Num(1), f>>
          [] sector = 3 -> <<Num(0), g, Num(1)>>
          [] sector = 4 -> <<f, Num(0), Num(1)>>
          [] OTHER      -> <<Num(1), Num(0), g>>
HueOf(t) == Mul(Sub(Num(1), t), Num(270))
\* The sector index HSVtoRGB computes for the hue of t.
SectorOf(t) == MathFloor(Mul(Div(rainbowHue(t), Num(360)), Num(6))).n

\* C18 (as stated): under the rainbow palette the colour of t is HSV->RGB of
\* hue (1 - t) x 270 degrees, the blue end (hue 270) at t = 1 and the red end
\* (hue 0) at t = 0, the sector index never reaching 5.
C18_RainbowBlueAtOne ==
    ColorMapDone("rainbow") =>
        \A i \in 1..Len(task.data) :
            /\ ColorAt(i) = HueColor(HueOf(PositionOf(i)))
            /\ PositionOf(i) = Num(1) => ColorAt(i) = HueColor(Num(270))
            /\ PositionOf(i) = Num(0) => ColorAt(i) = <<Num(1), Num(0), Num(0)>>
            /\ SectorOf(PositionOf(i)) \in 0..4

\* C18 (amended): under the rainbow palette the colour of t is HSV->RGB of
\* hue (1 - t) x 270 degrees, the red end (1, 0, 0) at t = 1 and the
\* blue-violet end (0.5, 0, 1), hue 270, at t = 0, the sector index never
\* reaching 5.
C18_RainbowRedAtOne ==
    ColorMapDone("rainbow") =>
        \A i \in 1..Len(task.data) :
            /\ ColorAt(i) = HueColor(HueOf(PositionOf(i)))
            /\ PositionOf(i) = Num(1) => ColorAt(i) = <<Num(1), Num(0), Num(0)>>
            /\ PositionOf(i) = Num(0) => ColorAt(i) = <<Rat(1, 2), Num(0), Num(1)>>
            /\ SectorOf(PositionOf(i)) \in 0..4
C18_Witness ==
    /\ ColorMapDone("rainbow") /\ Len(task.data) = 3
    /\ ColorAt(1) = <<Rat(1, 2), Num(0), Num(1)>>
    /\ PositionOf(2) = Rat(1, 3) /\ ColorAt(2) = <<Num(0), Num(1), Num(1)>>
    /\ ColorAt(3) = <<Num(1), Num(0), Num(0)>>

\* The six colours the elevation ramp runs through, at t = 0, 0.2, ..., 1:
\* blue, cyan, green, yellow, red, white.
RampColors ==
    << <<Num(0), Num(0), Num(1)>>, <<Num(0), Num(1), Num(1)>>, <<Num(0), Num(1), Num(0)>>,
       <<Num(1), Num(1), Num(0)>>, <<Num(1), Num(0), Num(0)>>, <<Num(1), Num(1), Num(1)>> >>
\* Linear interpolation between two colours by the fraction f.
Between(a, b, f) == [c \in 1..3 |-> Add(a[c], Mul(f, Sub(b[c], a[c])))]
\* The ramp at t in [0, 1]: band floor(5t) (the last band closed at 1),
\* interpolated by the band-local fraction x 5.
ElevationRamp(t) ==
    LET b    == (5 * t.n) \div t.d
        band == IF b > 4 THEN 4 ELSE b
    IN  Between(RampColors[band + 1], RampColors[band + 2],
                Sub(Mul(t, Num(5)), Num(band)))

\* C19: under the elevation palette every t in [0, 1] is coloured by the
\* five-band ramp, each band interpolating linearly by the band-local fraction
\* x 5; t = 0.2 gives (0, 1, 1), t = 0.8 gives (1, 0, 0), and at every band
\* boundary the colour is the end colour of the band below.
C19_ElevationRamp ==
    ColorMapDone("elevation") =>
        /\ \A i \in 1..Len(task.data) : ColorAt(i) = ElevationRamp(PositionOf(i))
        /\ colorOf(Rat(1, 5), "elevation") = <<Num(0), Num(1), Num(1)>>
        /\ colorOf(Rat(4, 5), "elevation") = <<Num(1), Num(0), Num(0)>>
        /\ \A k \in 0..5 : colorOf(Rat(k, 5), "elevation") = RampColors[k + 1]
C19_Witness ==
    /\ ColorMapDone("elevation") /\ Len(task.data) = 3
    /\ PositionOf(2) = Rat(1, 5) /\ ColorAt(2) = <<Num(0), Num(1), Num(1)>>
    /\ PositionOf(3) = Num(1) /\ ColorAt(3) = <<Num(1), Num(1), Num(1)>>

\* C20: under the default palette, and under any palette name other than
\* rainbow and elevation, the colour of t is (0, 2t, 1 - 2t) when t < 0.5 and
\* (2(t - 0.5), 1 - 2(t - 0.5), 0) when t >= 0.5, t being the position of the
\* value between the extrema of the input array itself.
C20_DefaultPalette ==
    \A m \in {"default", "other"} :
        ColorMapDone(m) =>
            \A i \in 1..Len(task.data) :
                LET t == PositionOf(i)
                    u == Sub(t, Rat(1, 2))
                IN  ColorAt(i) =
                       IF 2 * t.n < t.d
                       THEN <<Num(0), Mul(Num(2), t), Sub(Num(1), Mul(Num(2), t))>>
                       ELSE <<Mul(Num(2), u), Sub(Num(1), Mul(Num(2), u)), Num(0)>>
C20_Witness ==
    /\ ColorMapDone("other") /\ Len(task.data) = 3
    /\ PositionOf(1) = Num(0) /\ PositionOf(2) = Rat(1, 4) /\ PositionOf(3) = Num(1)
    /\ ColorAt(2) = <<Num(0), Rat(1, 2), Rat(1, 2)>>
    /\ ColorAt(3) = <<Num(1), Num(0), Num(0)>>

(***************************************************************************)
(* Properties of handleFileDrop and of the listed records (Spec)           *)
(***************************************************************************)
\* The files of a batch whose parse succeeds, in input order.
ParsedOk(drop) ==
    SelectSeq(drop.files,
              LAMBDA f : /\ fileExtension(f) \in {"csv", "pcd"}
                         /\ Parsed[f][drop.colorMapType].status = "resolved")

\* The step ends the handleFileDrop call d: the list it publishes is the list
\* of the moment the call began followed by one cloud per successfully parsed
\* file, in input order.
PublishesBatch(d) ==
    LET drop == drops[d]
        ok   == ParsedOk(drop)
        base == Len(drop.listed)
    IN  /\ drops' = RemoveAt(drops, d)
        /\ Len(pointClouds') = base + Len(ok)
        /\ SubSeq(pointClouds', 1, base) = drop.listed
        /\ \A k \in 1..Len(ok) :
              /\ pointClouds'[base + k].name = ok[k]
              /\ pointClouds'[base + k].data = Parsed[ok[k]][drop.colorMapType].value

\* C11: a file whose parse fails, or whose extension is unsupported, never
\* aborts the batch: the clouds the batch appends are exactly its successfully
\* parsed files, in input order, after the clouds that were already listed
\* (the list as the call read it when it began).
C11_BatchSkipsFailures ==
    [][Len(drops') < Len(drops) => \E d \in 1..Len(drops) : PublishesBatch(d)]_vars
C11_Witness ==
    /\ drops = <<>> /\ Len(pointClouds) = 1
    /\ pointClouds[1].name = "flat.csv"
    /\ pointClouds[1].id[2] = 2

\* The index of the next file of the batch that is parsed after file i, or
\* one past the end.
NextSupported(files, i) ==
    IF \E j \in (i + 1)..Len(files) : fileExtension(files[j]) \in {"csv", "pcd"}
    THEN CHOOSE j \in (i + 1)..Len(files) :
            /\ fileExtension(files[j]) \in {"csv", "pcd"}
            /\ \A k \in (i + 1)..(j - 1) : fileExtension(files[k]) \notin {"csv", "pcd"}
    ELSE Len(files) + 1

\* The step settles the parse in flight of batch d: its bounds merge (if the
\* parse made one) is applied, and only then the batch moves to its next file.
Settles(d) ==
    LET drop == drops[d]
        o    == Parsed[drop.files[drop.i]][drop.colorMapType]
        nxt  == NextSupported(drop.files, drop.i)
    IN  /\ IF o.status = "resolved" /\ o.calls # <<>>
           THEN /\ heightBounds' = <<LesserOf(heightBounds[1], o.calls[1][1]),
                                     GreaterOf(heightBounds[2], o.calls[1][2])>>
                /\ lastMerge'.called /\ lastMerge'.prev = heightBounds
           ELSE heightBounds' = heightBounds /\ lastMerge' = lastMerge
        /\ IF nxt > Len(drop.files)
           THEN drops' = RemoveAt(drops, d)
           ELSE /\ Len(drops') = Len(drops)
                /\ drops'[d].files = drop.files /\ drops'[d].i = nxt
                /\ \A e \in 1..Len(drops) : e # d => drops'[e] = drops[e]

\* A batch in flight moved, or the bounds were merged.
BatchMoved ==
    \/ heightBounds' # heightBounds
    \/ lastMerge' # lastMerge
    \/ \E d \in 1..Len(drops) : d > Len(drops') \/ drops'[d] # drops[d]

\* C12: within one batch the files are parsed strictly one after the other:
\* the next parse starts only in the step in which the parse in flight has
\* settled and its bounds merge has been applied, so the merges of a batch
\* follow the order of its files.
C12_SequentialParse ==
    [][BatchMoved => \E d \in 1..Len(drops) : Settles(d)]_vars
C12_Witness ==
    /\ drops = <<>> /\ Len(pointClouds) = 2
    /\ pointClouds[1].id[2] = 0 /\ pointClouds[2].id[2] = 1
    /\ lastMerge.called /\ lastMerge.prev = <<Num(-20), Num(10)>>

\* The same cloud in two successive lists.
SameCloud(a, b) == a.id = b.id /\ a.name = b.name
\* The explicit-colour flag of a record.
FlagOf(pc) == IF pc.type = "csv" THEN pc.data.hasRGB ELSE pc.data.hasColor
Recolorable(pc) == pc.type = "csv" /\ ~pc.data.hasRGB

\* C13 (as stated): once a cloud is listed no action changes its record:
\* positions, colors, zValues and the explicit-colour flag stay as parsed.
C13_RecordImmutable ==
    [][\A k \in 1..Len(pointClouds') :
          (\E j \in 1..Len(pointClouds) : SameCloud(pointClouds[j], pointClouds'[k]))
          => \E j \in 1..Len(pointClouds) :
                /\ SameCloud(pointClouds[j], pointClouds'[k])
                /\ pointClouds'[k].data = pointClouds[j].data]_vars

\* The record b may follow the record a of the same cloud.
FollowsRecord(a, b) ==
    /\ b.type = a.type
    /\ b.data.positions = a.data.positions
    /\ b.data.zValues = a.data.zValues
    /\ FlagOf(b) = FlagOf(a)
    /\ \/ b.data.colors = a.data.colors
       \/ /\ Recolorable(a)
          /\ \E m \in Palettes : b.data.colors = createColorMapForCSV(a.data.zValues, m)

\* C13 (amended): once a cloud is listed no action changes its positions,
\* zValues or explicit-colour flag; its colours stay as parsed, except that
\* the colours of a delimited-file cloud without explicit colours may be
\* replaced by createColorMapForCSV(zValues, p) for one of the palettes p, a
\* palette change recomputing them under the palette chosen.
C13_RecordFrame ==
    [][/\ \/ pointClouds' = pointClouds
          \/ \A k \in 1..Len(pointClouds') :
                (\E j \in 1..Len(pointClouds) : SameCloud(pointClouds[j], pointClouds'[k]))
                => \E j \in 1..Len(pointClouds) :
                      /\ SameCloud(pointClouds[j], pointClouds'[k])
                      /\ FollowsRecord(pointClouds[j], pointClouds'[k])
       /\ (colorMapType' # colorMapType) =>
             \A k \in 1..Len(pointClouds') :
                Recolorable(pointClouds'[k]) =>
                   pointClouds'[k].data.colors =
                      createColorMapForCSV(pointClouds'[k].data.zValues, colorMapType')]_vars
C13_Witness ==
    /\ colorMapType = "rainbow" /\ Len(pointClouds) = 2
    /\ pointClouds[1].name = "flat.csv" /\ pointClouds[2].name = "scan.pcd"
    /\ pointClouds[1].data.colors =
          createColorMapForCSV(pointClouds[1].data.zValues, "rainbow")
    /\ pointClouds[2].data.colors = createSingleColorForPCD(2)

(***************************************************************************)
(* Properties of the colours read from a file (SpecCall)                   *)
(***************************************************************************)
\* C21: the hasRGB flag returned by loadCSV equals (row 0 has at least 6
\* fields): later rows, the acceptance of row 0 and the colours actually read
\* have no part in it.
C21_FlagFromRowZero ==
    CsvOk => result.value.hasRGB = (Len(task.data[1]) >= 6)
C21_Witness ==
    /\ CsvOk /\ Len(task.data) = 2
    /\ Len(task.data[1]) >= 6 /\ ~csvRowAccepted(task.data[1])
    /\ Len(task.data[2]) < 6
    /\ result.value.hasRGB /\ result.value.colors = <<>>

\* The stored component of a colour cell: 128 for NaN or text, else the
\* value brought into [0, 255]; all over 255.
ChannelOf(c) ==
    IF c.k \in {"nan", "text"} THEN Rat(128, 255)
    ELSE IF Lt(c, Num(0)) THEN Num(0)
    ELSE IF Lt(Num(255), c) THEN Num(1)
    ELSE Div(ToNumber(c), Num(255))
RECURSIVE ChannelsOf(_)
ChannelsOf(rows) ==
    IF rows = <<>> THEN <<>>
    ELSE (IF Len(Head(rows)) >= 6
          THEN <<ChannelOf(Head(rows)[4]), ChannelOf(Head(rows)[5]),
                 ChannelOf(Head(rows)[6])>>
          ELSE <<>>)
         \o ChannelsOf(Tail(rows))

C23_Tier1ColorsInUnit ==
    Tier1Ok => \A j \in 1..Len(result.value.colors) : InUnit(result.value.colors[j])

\* C24: when every row has finite x, y, z and fewer than 6 fields, loadCSV
\* resolves with hasRGB false and colors = createColorMapForCSV(zValues,
\* palette) for the palette of the caller, of length 3 x (accepted points).
C24_ColorMapWhenNoRGB ==
    (CsvDone /\ result.error # "read error" /\ task.data # <<>>
       /\ \A i \in 1..Len(task.data) : ValidRow(task.data[i]) /\ Len(task.data[i]) < 6) =>
        /\ result.status = "resolved"
        /\ ~result.value.hasRGB
        /\ result.value.colors = createColorMapForCSV(result.value.zValues, task.mapType)
        /\ Len(result.value.zValues) = Len(task.data)
        /\ Len(result.value.colors) = 3 * Len(task.data)
C24_Witness ==
    /\ CsvOk /\ task.mapType = "rainbow"
    /\ task.data = << <<Num(1), Num(2), Num(0)>>, <<Num(6), Num(6), Num(7), Num(10), Num(20)>>,
                      <<Num(3), Num(4), Num(5)>> >>
    /\ Len(result.value.colors) = 9
    /\ SubSeq(result.value.colors, 4, 6) = <<Num(1), Num(0), Num(0)>>

(***************************************************************************)
(* Properties of the session state (Spec)                                  *)
(***************************************************************************)
\* C25: when a handleFileDrop call finishes, the list it publishes is the
\* list as it stands at that moment followed by the clouds of the call's
\* successfully parsed files: nothing done to the list during the load is lost.
C25_NoLostUpdate ==
    [][Len(drops') < Len(drops) =>
          \E d \in 1..Len(drops) :
             /\ drops' = RemoveAt(drops, d)
             /\ Len(pointClouds') = Len(pointClouds) + Len(ParsedOk(drops[d]))
             /\ SubSeq(pointClouds', 1, Len(pointClouds)) = pointClouds]_vars


\* C26: every id in selectedPoints is the id of a cloud in pointClouds, so a
\* non-empty selection never makes exportToCSV export zero clouds.
C26_SelectionListed ==
    /\ \A k \in 1..Len(selectedPoints) :
          \E j \in 1..Len(pointClouds) : pointClouds[j].id = selectedPoints[k]
    /\ selectedPoints # <<>> => cloudsToExport(pointClouds, selectedPoints) # <<>>


\* C27: after any sequence of bounds merges with minZ <= maxZ, slider changes
\* with ordered values and input-field changes, heightRange[0] <=
\* heightRange[1]: an input crossing the other end is clamped to it, a
\* non-numeric input changes nothing.
C27_RangeOrdered == Leq(heightRange[1], heightRange[2])
C27_Witness ==
    /\ heightBounds = <<Num(-30), Num(10)>>
    /\ heightRange = <<Num(-30), Num(-30)>>


(***************************************************************************)
(* Properties of the height filter (SpecCall)                              *)
(***************************************************************************)
Rendered == task.fn = "applyHeightFilter" /\ result.status = "rendered"

\* C28: with the filter enabled the index buffer of a cloud lists exactly the
\* indices i of its points with heightRange[0] <= z_i <= heightRange[1], in
\* ascending order, whatever the size of the cloud (no index is altered by the
\* 16-bit width of the buffer); with the filter disabled there is no index
\* buffer.
C28_IndexBufferExact ==
    Rendered =>
        LET cloud   == task.data.cloud
            range   == task.data.heightRange
            index   == result.value
            visible == {i \in 0..(cloud.fill + Len(cloud.zs) - 1) :
                           /\ Leq(range[1], ElevationOf(cloud, i))
                           /\ Leq(ElevationOf(cloud, i), range[2])}
        IN  IF task.cb
            THEN /\ index.present
                 /\ {index.array[j] : j \in 1..Len(index.array)} = visible
                 /\ Len(index.array) = Cardinality(visible)
                 /\ \A j \in 1..(Len(index.array) - 1) : index.array[j] < index.array[j + 1]
            ELSE ~index.present

====
